---- MODULE Spec2Model ----
(***************************************************************************)
(* A model of src/main.py: the Streamlit baby-name dashboard.              *)
(*                                                                         *)
(*   - load_name_data : fetch the archive, parse every per-year file,      *)
(*                      concatenate, add the pct column (memoized by       *)
(*                      st.cache_data)                                     *)
(*   - ohw            : the one-hit-wonder extractor                       *)
(*   - the script body: session-state defaults, reset buttons, the two     *)
(*                      sidebar widgets and the filtered view              *)
(*                                                                         *)
(* Text is modelled as it is processed: a file name is a sequence of       *)
(* characters (so that endswith, the slice [3:7] and int() are computed),  *)
(* a line is the sequence of its comma-separated fields, a field is a      *)
(* token.  Numbers of a DataFrame column are values of kind "num" (an      *)
(* exact fraction n/d), "nan", "inf", "ninf" or "str" (an object column).  *)
(***************************************************************************)
EXTENDS Integers, Sequences, FiniteSets, TLC

\* ------------------------------------------------------------------ bounds

\* Longest per-year file, in lines, of the archives of SpecLoad.
MaxLines == 2
\* Longest per-year file, in lines, of the archives of SpecFilter.
MaxViewLines == 1
\* Most network fetches the application specification follows.
MaxFetch == 3

\* ------------------------------------------------------------- sequences

RECURSIVE Concat(_)
\* pd.concat(dfs, ignore_index=True): the frames' rows, in order.
Concat(ss) == IF ss = <<>> THEN <<>> ELSE Head(ss) \o Concat(Tail(ss))

\* The set of the rows' positions.
Index(df) == 1..Len(df)

RECURSIVE SumOver(_, _)
\* The sum of f[i] over the finite set S of positions.
SumOver(S, f) ==
    IF S = {} THEN 0
    ELSE LET i == CHOOSE j \in S : TRUE IN f[i] + SumOver(S \ {i}, f)

\* --------------------------------------------------------------- numbers

\* A float64/int64 value v.
Num(v) == [k |-> "num", n |-> v, d |-> 1]
NaN == [k |-> "nan", n |-> 0, d |-> 1]
PosInf == [k |-> "inf", n |-> 0, d |-> 1]
NegInf == [k |-> "ninf", n |-> 0, d |-> 1]
\* A string held in an object column.
Str == [k |-> "str", n |-> 0, d |-> 1]

\* Series / Series for a count (an integer or NaN) over a group sum (an
\* integer): numpy's true division, which never raises: x/0 is +-inf and 0/0
\* is NaN.  The quotient is kept as the exact fraction n/d.
Divide(a, s) ==
    IF a.k = "nan" THEN NaN
    ELSE IF s = 0 THEN (IF a.n = 0 THEN NaN ELSE IF a.n > 0 THEN PosInf ELSE NegInf)
    ELSE [k |-> "num", n |-> a.n, d |-> s]

\* ------------------------------------------------------------ exceptions

\* A call's outcome: a returned frame, or the exception it raised.
Ok(d) == [ok |-> TRUE, exc |-> "", data |-> d]
Raise(e) == [ok |-> FALSE, exc |-> e, data |-> <<>>]

\* ------------------------------------------------------------ file names

DigitVal ==
    "0" :> 0 @@ "1" :> 1 @@ "2" :> 2 @@ "3" :> 3 @@ "4" :> 4 @@
    "5" :> 5 @@ "6" :> 6 @@ "7" :> 7 @@ "8" :> 8 @@ "9" :> 9

\* file.endswith(suffix)
EndsWith(file, suffix) ==
    /\ Len(file) >= Len(suffix)
    /\ SubSeq(file, Len(file) - Len(suffix) + 1, Len(file)) = suffix

\* file[lo:hi], Python's slice: positions lo .. hi-1 counted from 0, cut at
\* the end of the string.
Slice(file, lo, hi) ==
    SubSeq(file, lo + 1, IF hi < Len(file) THEN hi ELSE Len(file))

\* int(text) succeeds: over the characters of the modelled file names
\* (letters, digits and '.') that is a non-empty run of digits.
IntParses(text) ==
    /\ text # <<>>
    /\ \A i \in 1..Len(text) : text[i] \in DOMAIN DigitVal

RECURSIVE IntOf(_)
\* int(text), for a text that parses.
IntOf(text) ==
    IF text = <<>> THEN 0
    ELSE 10 * IntOf(SubSeq(text, 1, Len(text) - 1)) + DigitVal[text[Len(text)]]

\* The archive's member names, as z.namelist() gives them.
yob1880 == <<"y","o","b","1","8","8","0",".","t","x","t">>
yob2023 == <<"y","o","b","2","0","2","3",".","t","x","t">>
namesTxt == <<"n","a","m","e","s",".","t","x","t">>
readMePdf == <<"N","a","t","i","o","n","a","l","R","e","a","d","M","e",".","p","d","f">>
dotTxt == <<".","t","x","t">>

\* ------------------------------------------------------- the source files

\* The integer literals among the count tokens, with the value read_csv
\* gives each; any other token leaves the column an object column.
IntTokens == "0" :> 0 @@ "1" :> 1 @@ "-1" :> -1

\* Lines name,sex,count as the source publishes them (count 0 included).
WellFormedLines ==
    { <<"Emma", "F", "1">>, <<"Liam", "F", "1">>, <<"Liam", "M", "1">>,
      <<"Emma", "F", "0">> }

\* Lines the source format excludes: two fields, a count that is no number,
\* a negative count.
MalformedLines ==
    { <<"Emma", "F">>, <<"Emma", "F", "x">>, <<"Liam", "M", "-1">> }

Lines == WellFormedLines \cup MalformedLines

\* The sequences over S of length at most n.
SeqUpTo(S, n) == UNION {[1..k -> S] : k \in 0..n}

\* An archive member.
File(name, lines) == [name |-> name, lines |-> lines]

\* The members an archive may hold, in namelist order; the two per-year
\* files carry any contents, the other two are fixed.
Members == <<yob1880, yob2023, namesTxt, readMePdf>>
YearMembers == {1, 2}
FixedLines == << <<"Emma", "F", "1">> >>

\* The archive holding the members P, the per-year ones with contents c.
Archive(P, c) ==
    LET NthOf(S, n) ==
            CHOOSE i \in S : Cardinality({j \in S : j < i}) = n - 1
        file(i) ==
            File(Members[i], IF i \in YearMembers THEN c[i] ELSE FixedLines)
    IN  [zip |-> TRUE, files |-> [n \in 1..Cardinality(P) |-> file(NthOf(P, n))]]

\* a is an archive whose per-year files are drawn from `contents`.
IsArchive(a, contents) ==
    \E P \in SUBSET (1..Len(Members)) :
        \E c \in [P \cap YearMembers -> contents] : a = Archive(P, c)

\* A response body that is no ZIP archive (an HTML error page).
NotZip == [zip |-> FALSE, files |-> <<>>]

\* ------------------------------------------------------- load_name_data

\* pd.read_csv(f, header=None): the first line fixes the number of columns;
\* a later line with more fields is a ParserError, one with fewer is padded
\* with NaN; a file without lines is an EmptyDataError.
read_csv(lines) ==
    IF lines = <<>> THEN Raise("EmptyDataError")
    ELSE IF \E i \in 1..Len(lines) : Len(lines[i]) > Len(lines[1])
    THEN Raise("ParserError")
    ELSE Ok(lines)

\* The count cell of a parsed line: an integer, NaN where the line was
\* padded, a string where the token is no number.
CountCell(line) ==
    IF Len(line) < 3 THEN NaN
    ELSE IF line[3] \in DOMAIN IntTokens THEN Num(IntTokens[line[3]])
    ELSE Str

\* One iteration of the loop over the files: read the file, name the three
\* columns (a ValueError unless the frame has exactly three), add the year
\* column int(file[3:7]) (a ValueError unless the slice is a number).
FileFrame(file) ==
    LET df == read_csv(file.lines) IN
    IF ~df.ok THEN df
    ELSE IF Len(file.lines[1]) # 3 THEN Raise("ValueError")
    ELSE IF ~IntParses(Slice(file.name, 3, 7)) THEN Raise("ValueError")
    ELSE Ok([i \in 1..Len(df.data) |->
                [name |-> df.data[i][1], sex |-> df.data[i][2],
                 count |-> CountCell(df.data[i]),
                 year |-> IntOf(Slice(file.name, 3, 7))]])

\* The sum over row i's year, the sex left out of the grouping.
YearSum(data, i) ==
    LET group == {j \in Index(data) :
                    data[j].year = data[i].year /\ data[j].count.k = "num"}
    IN  SumOver(group, [j \in group |-> data[j].count.n])

\* data.groupby(['year', 'sex'])['count'].transform('sum') at row i: the sum
\* of the counts of the rows of row i's (year, sex) group, NaN skipped.
GroupSum(data, i) ==
    LET group == {j \in Index(data) :
                    /\ data[j].year = data[i].year
                    /\ data[j].sex = data[i].sex
                    /\ data[j].count.k = "num"}
    IN  SumOver(group, [j \in group |-> data[j].count.n])

\* data['pct'] = data['count'] / <the group sums>; dividing a string of an
\* object column is a TypeError.
WithPct(data) ==
    IF \E i \in Index(data) : data[i].count.k = "str" THEN Raise("TypeError")
    ELSE Ok([i \in Index(data) |->
                [name |-> data[i].name, sex |-> data[i].sex,
                 count |-> data[i].count, year |-> data[i].year,
                 pct |-> Divide(data[i].count, GroupSum(data, i))]])

\* The body of load_name_data from the response on: open the body as a ZIP
\* archive (BadZipFile if it is none), parse the .txt members in order (the
\* first exception ends the load), concatenate (a ValueError when there is
\* no frame) and add pct.
ParseResponse(body) ==
    IF ~body.zip THEN Raise("BadZipFile")
    ELSE
      LET files == SelectSeq(body.files, LAMBDA f : EndsWith(f.name, dotTxt))
          dfs == [i \in 1..Len(files) |-> FileFrame(files[i])]
          bad == {i \in 1..Len(files) : ~dfs[i].ok}
      IN  IF bad # {} THEN dfs[CHOOSE i \in bad : \A j \in bad : i <= j]
          ELSE IF files = <<>> THEN Raise("ValueError")
          ELSE WithPct(Concat([i \in 1..Len(files) |-> dfs[i].data]))

\* ------------------------------------------------------------------ ohw

\* The alphabetical order of the modelled names and sexes, by which groupby
\* sorts its keys.
NameRank == "Emma" :> 1 @@ "Liam" :> 2
SexRank == "F" :> 1 @@ "M" :> 2
KeyBefore(a, b) ==
    \/ NameRank[a[1]] < NameRank[b[1]]
    \/ /\ a[1] = b[1]
       /\ SexRank[a[2]] <= SexRank[b[2]]

RECURSIVE SortedKeys(_)
\* The keys of S in increasing order.
SortedKeys(S) ==
    IF S = {} THEN <<>>
    ELSE LET first == CHOOSE k \in S : \A o \in S : KeyBefore(k, o)
         IN  <<first>> \o SortedKeys(S \ {first})

\* The number of rows under the key k, count() for nunique().
count_year(df, k) ==
    Cardinality({j \in Index(df) : <<df[j].name, df[j].sex>> = k})

\* df.groupby(['name', 'sex'])['year'].nunique() at the key k.
nunique_year(df, k) ==
    Cardinality({df[i].year : i \in {j \in Index(df) : <<df[j].name, df[j].sex>> = k}})

\* ohw(df): the keys with exactly one distinct year, and the rows of df under
\* each of them, key by key.
ohw(df) ==
    LET keys == {<<df[i].name, df[i].sex>> : i \in Index(df)}
        one_hit_wonders == SortedKeys({k \in keys : nunique_year(df, k) = 1})
    IN  Concat([n \in 1..Len(one_hit_wonders) |->
                  SelectSeq(df, LAMBDA r : <<r.name, r.sex>> = one_hit_wonders[n])])

\* --------------------------------------------------------- data_filtered

\* A range that leaves its right end out.
between_open(v, left, right) == left <= v /\ v < right

\* Series.between(left, right), inclusive="both".
between(v, left, right) == left <= v /\ v <= right

\* The filtered view: the rows of the selected sex unless it is "Both", then
\* the rows whose year is between the ends of year_range.
filter_view(data, selected_sex, year_range) ==
    LET bySex == IF selected_sex # "Both"
                 THEN SelectSeq(data, LAMBDA r : r.sex = selected_sex)
                 ELSE data
    IN  SelectSeq(bySex, LAMBDA r : between(r.year, year_range[1], year_range[2]))

\* ------------------------------------------------------ the script's body

\* The year-range slider's fixed ends.
SliderMin == 1880
SliderMax == 2022

\* The years a year range may name: the slider's ends and the years of the
\* modelled files.
RangeYears == {SliderMin, SliderMax, 2023}
Selections == <<"M", "F", "Both">>
Options == {Selections[i] : i \in 1..Len(Selections)}

default_sex == "Both"

\* (data['year'].min(), data['year'].max())
default_year_range(data) ==
    LET years == {data[i].year : i \in Index(data)}
    IN  << CHOOSE y \in years : \A o \in years : y <= o,
           CHOOSE y \in years : \A o \in years : y >= o >>

\* st.session_state with the attribute key set to val.
Put(state, key, val) ==
    [k \in DOMAIN state \cup {key} |-> IF k = key THEN val ELSE state[k]]

\* What triggers a run of the script: opening or refreshing the page, a click
\* on one of the two reset buttons, a new choice on the radio, a new range on
\* the slider.  A button is True only in the run its click triggers; a widget
\* the user did not touch returns the value the script passes to it.
Event(kind, sex, range) == [kind |-> kind, sex |-> sex, range |-> range]
Events ==
    {Event(k, default_sex, <<SliderMin, SliderMax>>) :
        k \in {"open", "reset_gender", "reset_year"}}
    \cup {Event("radio", o, <<SliderMin, SliderMax>>) : o \in Options}
    \cup {Event("slider", default_sex, range) :
            range \in {r \in RangeYears \X RangeYears : r[1] <= r[2]}}

\* The value passed to the slider lies between its ends, in order.
WithinSlider(value) ==
    SliderMin <= value[1] /\ value[1] <= value[2] /\ value[2] <= SliderMax

\* Lines 47-76 for the session state `state`, the loaded `data` and the
\* event e; `raises` says what st.slider does with a value outside its ends:
\* it raises, and the run ends at line 72, or it widens its ends to hold the
\* value.  The result is the session state the run leaves.
Script(state, data, e, raises) ==
    LET s1 == IF "selected_sex" \notin DOMAIN state
              THEN Put(state, "selected_sex", default_sex) ELSE state
        s2 == IF "year_range" \notin DOMAIN s1
              THEN Put(s1, "year_range", default_year_range(data)) ELSE s1
        s3 == IF e.kind = "reset_gender"
              THEN Put(s2, "selected_sex", default_sex) ELSE s2
        s4 == IF e.kind = "reset_year"
              THEN Put(s3, "year_range", default_year_range(data)) ELSE s3
        selected_sex == IF e.kind = "radio" THEN e.sex ELSE s4.selected_sex
        year_range == IF e.kind = "slider" THEN e.range ELSE s4.year_range
    IN  IF ~WithinSlider(s4.year_range) /\ raises THEN s4
        ELSE Put(Put(s4, "selected_sex", selected_sex), "year_range", year_range)

\* The events a run over `state` and `data` may have been triggered by.  No
\* widget is on the page before a run has reached line 56, so that run is an
\* opening of the page; a range picked on the slider lies between the ends
\* the slider showed.
EventsFor(state, data) ==
    IF "year_range" \notin DOMAIN state
    THEN {e \in Events : e.kind = "open"}
    ELSE LET shown == state.year_range
             hi == IF shown[2] > SliderMax THEN shown[2] ELSE SliderMax
         IN  {e \in Events : e.kind = "slider" => e.range[2] <= hi}

\* Every session state a run of the script's body may leave.
Runs(state, data) ==
    {Script(state, data, e, raises) :
        e \in EventsFor(state, data), raises \in BOOLEAN}

\* ------------------------------------------------------------------ state

Sessions == {"s1", "s2"}

VARIABLES
    cache,          \* st.cache_data's entry for load_name_data()
    lock,           \* the session computing the entry, or NoOne
    pc,             \* where each session's script run stands
    response,       \* the response each session's requests.get returned
    returned,       \* what load_name_data() gave each session's last run
    session_state,  \* st.session_state of each session
    fetches,        \* the number of requests.get calls issued so far
    first_result,   \* the first Dataset a load produced
    blocked,        \* the session's run found a load in progress
    archive,        \* the archive a load is applied to on its own
    stage,          \* how far the pipeline of the functions has run
    loaded,         \* what load_name_data made of the archive
    ohw_data,       \* ohw(data)
    selection,      \* the sex and the year range the filter was given
    data_filtered   \* the filtered view

app == <<cache, lock, pc, response, returned, session_state, fetches,
         first_result, blocked>>
pure == <<archive, stage, loaded, ohw_data, selection, data_filtered>>
vars == <<app, pure>>

\* No value: no cache entry, no result yet.
None == Raise("")
NoOne == "none"
NoResponse == [status |-> 0, body |-> NotZip]
NoState == [k \in {} |-> 0]

AppStart ==
    /\ cache = None
    /\ lock = NoOne
    /\ pc = [s \in Sessions |-> "idle"]
    /\ response = [s \in Sessions |-> NoResponse]
    /\ returned = [s \in Sessions |-> None]
    /\ session_state = [s \in Sessions |-> NoState]
    /\ fetches = 0
    /\ first_result = None
    /\ blocked = [s \in Sessions |-> FALSE]

PureStart ==
    /\ stage = "start"
    /\ loaded = None
    /\ ohw_data = <<>>
    /\ selection = <<>>
    /\ data_filtered = <<>>

\* ------------------------------------------------------ the application

\* What the server may answer: a status, and a body that is an archive of
\* per-year files or no archive at all.
Statuses == {200, 404}
Bodies ==
    {NotZip} \cup {Archive(P, [i \in P \cap YearMembers |-> FixedLines]) :
                      P \in SUBSET (1..Len(Members))}
Responses == {[status |-> st, body |-> b] : st \in Statuses, b \in Bodies}

\* A cache that stores nothing.
Forget(entry, value) == entry

\* st.cache_data: the entry after the function returned `value`.
Memoize(entry, value) == value

\* A cache that computes without the lock.
Unlocked(holder) == TRUE

\* st.cache_data computes a missing entry under a lock: a session may start
\* computing only when no other session holds it.
MayCompute(holder) == holder = NoOne

\* load_name_data() returned data to session s: the rest of the run (lines
\* 39-83) updates the session's state and ends.
Finish(s, data) ==
    /\ \E next \in Runs(session_state[s], data) :
          session_state' = [session_state EXCEPT ![s] = next]
    /\ pc' = [pc EXCEPT ![s] = "idle"]

\* The load raised: the run ends with the exception.
Fail(s, exception) ==
    /\ returned' = [returned EXCEPT ![s] = exception]
    /\ pc' = [pc EXCEPT ![s] = "idle"]
    /\ UNCHANGED session_state

\* A session's script starts a run and calls load_name_data(): a cached
\* entry is returned at once, a missing one makes the session queue for the
\* lock.
StartRun(s) ==
    /\ pc[s] = "idle"
    /\ IF cache.ok
       THEN /\ returned' = [returned EXCEPT ![s] = cache]
            /\ blocked' = [blocked EXCEPT ![s] = FALSE]
            /\ Finish(s, cache.data)
       ELSE /\ returned' = [returned EXCEPT ![s] = None]
            /\ blocked' = [blocked EXCEPT ![s] = lock # NoOne]
            /\ pc' = [pc EXCEPT ![s] = "wait"]
            /\ UNCHANGED session_state
    /\ UNCHANGED <<cache, lock, response, fetches, first_result, pure>>

\* The session gets the lock and looks the entry up again: if another
\* session has stored it meanwhile it is returned, otherwise the function
\* runs and requests.get is issued.
Acquire(s) ==
    /\ pc[s] = "wait"
    /\ MayCompute(lock)
    /\ IF cache.ok
       THEN /\ returned' = [returned EXCEPT ![s] = cache]
            /\ Finish(s, cache.data)
            /\ UNCHANGED <<lock, fetches>>
       ELSE /\ fetches < MaxFetch
            /\ lock' = s
            /\ fetches' = fetches + 1
            /\ pc' = [pc EXCEPT ![s] = "fetch"]
            /\ UNCHANGED <<returned, session_state>>
    /\ UNCHANGED <<cache, response, first_result, blocked, pure>>

\* requests.get raises: the transport failed.
Disconnect(s) ==
    /\ pc[s] = "fetch"
    /\ Fail(s, Raise("ConnectionError"))
    /\ lock' = NoOne
    /\ UNCHANGED <<cache, response, fetches, first_result, blocked, pure>>

\* requests.get returns a response, whatever its status.
Receive(s) ==
    /\ pc[s] = "fetch"
    /\ \E r \in Responses : response' = [response EXCEPT ![s] = r]
    /\ pc' = [pc EXCEPT ![s] = "parse"]
    /\ UNCHANGED <<cache, lock, returned, session_state, fetches,
                   first_result, blocked, pure>>

\* Lines 16-27 on the response's body, then st.cache_data stores what the
\* function returned and releases the lock; an exception is stored nowhere.
Parse(s) ==
    /\ pc[s] = "parse"
    /\ LET data == ParseResponse(response[s].body) IN
       IF data.ok
       THEN /\ cache' = Memoize(cache, data)
            /\ first_result' = IF first_result.ok THEN first_result ELSE data
            /\ returned' = [returned EXCEPT ![s] = data]
            /\ Finish(s, data.data)
       ELSE /\ Fail(s, data)
            /\ UNCHANGED <<cache, first_result>>
    /\ lock' = NoOne
    /\ response' = [response EXCEPT ![s] = NoResponse]
    /\ UNCHANGED <<fetches, blocked, pure>>

Init ==
    /\ AppStart
    /\ PureStart
    /\ archive = NotZip

Next ==
    \E s \in Sessions :
        StartRun(s) \/ Acquire(s) \/ Disconnect(s) \/ Receive(s) \/ Parse(s)

Spec == Init /\ [][Next]_vars

\* ---------------------------------------------- the functions on their own

\* data = load_name_data(), for an archive fetched with success.
Load ==
    /\ stage = "start"
    /\ loaded' = ParseResponse(archive)
    /\ stage' = "loaded"
    /\ UNCHANGED <<archive, ohw_data, selection, data_filtered, app>>

\* ohw_data = ohw(data)
Ohw ==
    /\ stage = "loaded"
    /\ loaded.ok
    /\ ohw_data' = ohw(loaded.data)
    /\ stage' = "ohw"
    /\ UNCHANGED <<archive, loaded, selection, data_filtered, app>>

\* The filtered view of data for a sex selection and a year range.
Filter ==
    /\ stage = "loaded"
    /\ loaded.ok
    /\ \E sex \in Options, y0 \in RangeYears, y1 \in RangeYears :
         /\ selection' = <<sex, y0, y1>>
         /\ data_filtered' = filter_view(loaded.data, sex, <<y0, y1>>)
    /\ stage' = "filtered"
    /\ UNCHANGED <<archive, loaded, ohw_data, app>>

\* load_name_data and ohw over every archive of files of at most MaxLines
\* lines.
InitLoad ==
    /\ AppStart
    /\ PureStart
    /\ IsArchive(archive, SeqUpTo(Lines, MaxLines))
NextLoad == Load \/ Ohw
SpecLoad == InitLoad /\ [][NextLoad]_vars

\* The filter over the data of every archive of files of at most
\* MaxViewLines lines.
InitFilter ==
    /\ AppStart
    /\ PureStart
    /\ IsArchive(archive, SeqUpTo(Lines, MaxViewLines))
NextFilter == Load \/ Filter
SpecFilter == InitFilter /\ [][NextFilter]_vars

\* ----------------------------------------------------------- properties

\* The number of rows of df equal to the record r.
Occurrences(df, r) == Cardinality({i \in Index(df) : df[i] = r})

\* The distinct years the pair (name, sex) has in d.
YearsOf(d, name, sex) ==
    {d[i].year : i \in {j \in Index(d) : d[j].name = name /\ d[j].sex = sex}}

\* The rows of d in row i's (year, sex) group.
GroupOf(d, i) ==
    {j \in Index(d) : d[j].year = d[i].year /\ d[j].sex = d[i].sex}

\* C1: the one-hit-wonder output is sound and complete: every pair in the
\* output has exactly one distinct year in the data, every row of the output
\* is a row of the data, and every row of the data whose pair has exactly one
\* distinct year is in the output.
C1_OhwSoundAndComplete ==
    stage = "ohw" =>
        LET d == loaded.data IN
        /\ \A j \in Index(ohw_data) :
              /\ Cardinality(YearsOf(d, ohw_data[j].name, ohw_data[j].sex)) = 1
              /\ \E i \in Index(d) : d[i] = ohw_data[j]
        /\ \A i \in Index(d) :
              Cardinality(YearsOf(d, d[i].name, d[i].sex)) = 1
                  => \E j \in Index(ohw_data) : ohw_data[j] = d[i]

\* ohw has kept a one-year pair and dropped a pair with two years.
C1_Witness ==
    /\ stage = "ohw"
    /\ ohw_data # <<>>
    /\ \E i \in Index(loaded.data) :
          Cardinality(YearsOf(loaded.data, loaded.data[i].name,
                              loaded.data[i].sex)) = 2

\* A Dataset as the data model has it: every count a non-negative integer,
\* every (year, sex) group with births.
ValidDataset(d) ==
    /\ \A i \in Index(d) : d[i].count.k = "num" /\ d[i].count.n >= 0
    /\ \A i \in Index(d) :
          SumOver(GroupOf(d, i), [j \in GroupOf(d, i) |-> d[j].count.n]) > 0

\* C2: in a valid Dataset that load_name_data returns, the pct of every
\* (year, sex) group add up to 1: each pct is the fraction count / total with
\* the group's total as denominator, and the numerators add up to it.
C2_PctSumsToOne ==
    (stage # "start" /\ loaded.ok /\ ValidDataset(loaded.data)) =>
        LET d == loaded.data IN
        \A i \in Index(d) :
            /\ d[i].pct.k = "num"
            /\ d[i].pct.n = d[i].count.n
            /\ d[i].pct.d # 0
            /\ \A j \in GroupOf(d, i) : d[j].pct.d = d[i].pct.d
            /\ SumOver(GroupOf(d, i), [j \in GroupOf(d, i) |-> d[j].pct.n])
                  = d[i].pct.d

\* A valid Dataset was loaded in which a group has two records and a year
\* has records of both sexes.
C2_Witness ==
    /\ stage = "loaded"
    /\ loaded.ok
    /\ ValidDataset(loaded.data)
    /\ \E i \in Index(loaded.data) : Cardinality(GroupOf(loaded.data, i)) = 2
    /\ \E i, j \in Index(loaded.data) :
          /\ loaded.data[j].year = loaded.data[i].year
          /\ loaded.data[j].sex # loaded.data[i].sex

\* The filter's arguments, once it has run.
ViewSex == selection[1]
ViewStart == selection[2]
ViewEnd == selection[3]

\* C5: for y0 <= y1 the filtered view holds exactly the rows of the data
\* whose year lies in [y0, y1], both ends included, and whose sex is the
\* selected one, no row being excluded by sex when the selection is Both.
C5_FilterExact ==
    (stage = "filtered" /\ ViewStart <= ViewEnd) =>
        LET d == loaded.data
            Kept(r) == /\ ViewStart <= r.year
                       /\ r.year <= ViewEnd
                       /\ (ViewSex # "Both" => r.sex = ViewSex)
        IN  /\ \A i \in Index(d) :
                  Occurrences(data_filtered, d[i])
                      = IF Kept(d[i]) THEN Occurrences(d, d[i]) ELSE 0
            /\ \A j \in Index(data_filtered) :
                  \E i \in Index(d) : d[i] = data_filtered[j]

\* The filter ran with Both on data of both sexes and kept a row whose year
\* is the end of the range, and dropped another.
C5_Witness ==
    /\ stage = "filtered"
    /\ ViewSex = "Both"
    /\ ViewStart < ViewEnd
    /\ \E j \in Index(data_filtered) : data_filtered[j].year = ViewEnd
    /\ Len(data_filtered) < Len(loaded.data)

MalformedFile(file) ==
    \/ \E i \in 1..Len(file.lines) :
          \/ Len(file.lines[i]) # 3
          \/ file.lines[i][3] \notin DOMAIN IntTokens
          \/ IntTokens[file.lines[i][3]] < 0
    \/ ~IntParses(Slice(file.name, 3, 7))
    \/ Len(Slice(file.name, 3, 7)) # 4

\* C8: when a per-year file of the archive is malformed the whole load fails:
\* no Dataset is returned.
C8_MalformedLoadFails ==
    (stage # "start"
        /\ \E n \in 1..Len(archive.files) :
              /\ EndsWith(archive.files[n].name, dotTxt)
              /\ MalformedFile(archive.files[n]))
    => ~loaded.ok

\* C9: when a (year, sex) group of the parsed records has a summed count of
\* 0 the load fails: no Dataset with such a group is returned.
C9_ZeroGroupFails ==
    (stage # "start" /\ loaded.ok) =>
        \A i \in Index(loaded.data) : GroupSum(loaded.data, i) # 0

\* ------------------------------------------- properties of the application

\* The sessions whose fetch-and-parse is in progress.
Loading == {s \in Sessions : pc[s] \in {"fetch", "parse"}}

\* A 2xx status.
Success(status) == 200 <= status /\ status < 300

\* C3 as claimed: the network fetch is issued at most once in total, and
\* every call that returns a Dataset returns the first one.
C3_AtMostOneFetch ==
    /\ fetches <= 1
    /\ \A s \in Sessions : returned[s].ok => returned[s] = first_result

\* C3 as amended: once a load has succeeded no fetch is issued any more (a
\* failed load stores nothing, and the next call fetches again), the entry
\* is the first Dataset, and every call that returns a Dataset returns it.
C3_NoFetchAfterSuccess ==
    /\ first_result.ok => (Loading = {} /\ cache = first_result)
    /\ \A s \in Sessions : returned[s].ok => returned[s] = first_result

\* After a failed fetch and a second, successful one, both sessions have
\* been given the Dataset.
C3_Witness ==
    /\ fetches >= 2
    /\ \A s \in Sessions : returned[s].ok /\ pc[s] = "idle"

\* C4 as claimed: at most one fetch-and-parse is in progress, and a caller
\* that found one in progress never triggers a fetch of its own.
C4_WaiterNeverFetches ==
    /\ Cardinality(Loading) <= 1
    /\ \A s \in Sessions : blocked[s] => s \notin Loading

\* C4 as amended: at most one fetch-and-parse is in progress; a caller that
\* found one in progress fetches only if no load has produced a Dataset (the
\* one it waited for failed), and otherwise is given the stored Dataset.
C4_SingleFlight ==
    /\ Cardinality(Loading) <= 1
    /\ \A s \in Sessions :
          blocked[s] =>
              /\ s \in Loading => ~cache.ok
              /\ returned[s].ok => returned[s] = cache

\* A caller that found the load in progress was given its Dataset, one fetch
\* having been issued in all.
C4_Witness ==
    /\ fetches = 1
    /\ \E s \in Sessions : blocked[s] /\ returned[s].ok

\* C7: when requests.get ends without success (it raised, or the status is
\* not 2xx) the load ends there with the error: the body is not parsed,
\* nothing is returned, nothing is stored.
C7_FailedFetchSurfaced ==
    [][\A s \in Sessions :
          (pc[s] = "fetch" /\ pc'[s] # "fetch"
              /\ (pc'[s] = "parse" => ~Success(response'[s].status)))
          => /\ pc'[s] = "idle"
             /\ ~returned'[s].ok
             /\ cache' = cache]_vars

\* C10: the year range held in a session's state lies within the slider's
\* ends, start <= end, and the selected sex is one of the radio's options.
C10_StateWithinWidgets ==
    \A s \in Sessions :
        /\ "year_range" \in DOMAIN session_state[s]
              => WithinSlider(session_state[s].year_range)
        /\ "selected_sex" \in DOMAIN session_state[s]
              => session_state[s].selected_sex \in Options

====
